---- MODULE Spec2Model ----
(***************************************************************************)
(* LocalExperimentClient (qiskit_ibm_experiment/client/local_client.py):   *)
(* two pandas tables (experiments, analysis results), a dictionary of      *)
(* figures, and their copy on disk.                                        *)
(*                                                                         *)
(* A DataFrame is a sequence of rows <<index label, data>>; data is a      *)
(* function from the columns that hold a value to that value, a column     *)
(* outside DOMAIN data is NaN.  Identifiers, plot names, file names, types *)
(* and tags are sequences of characters, so that file names are built and  *)
(* strings are split and searched as the code does.  A JSON payload is a   *)
(* function from its keys.                                                 *)
(***************************************************************************)
EXTENDS Integers, Sequences, FiniteSets, TLC

VARIABLES
    local_save,         \* self._local_save
    experiments,        \* self._experiments
    results,            \* self._results
    figures,            \* self._figures : exp_id -> (figure_name -> data)
    experiments_file,   \* <main_dir>/experiments.json
    results_file,       \* <main_dir>/results.json
    figures_dir,        \* <main_dir>/figures
    issued,             \* the values uuid.uuid4() has returned so far
    last,               \* the last call: its name, arguments and outcome
    nops                \* number of calls made so far

vars == <<local_save, experiments, results, figures,
          experiments_file, results_file, figures_dir, issued, last, nops>>

mem == <<experiments, results, figures>>
disk == <<experiments_file, results_file, figures_dir>>

(***************************************************************************)
(* Bounds and input domains                                                *)
(***************************************************************************)
MaxOps == 3

E1 == <<"e", "1">>
E2 == <<"e", "2">>
R1 == <<"r", "1">>
U4 == <<"u", "4">>

ExperimentIds == {E1, E2}           \* identifiers a caller supplies
ResultIds == {R1}
Uuid4Values == {U4}                 \* values str(uuid.uuid4()) may return
PlotNames == {<<"p">>}
PlotData == {"png1", "png2"}

\* tags and types are strings too: sequences of characters
TagX == <<"x">>
TagY == <<"y">>

experiment_db_columns ==
    {"type", "device_name", "uuid", "parent_experiment_uuid", "tags",
     "notes", "start_time"}

results_db_columns ==
    {"experiment_uuid", "type", "tags", "quality", "verified", "uuid",
     "device_name", "created_at"}

\* json.loads(data) of experiment_upload, less the "uuid" key
ExperimentBodies ==
    { [type |-> <<"T", "1">>, device_name |-> "dev1", tags |-> <<TagX>>, start_time |-> 1],
      [device_name |-> "dev2", tags |-> <<TagY>>, start_time |-> 2, owner |-> "me"] }

\* json.loads(new_data) of experiment_update
ExperimentUpdates ==
    { [device_name |-> "dev2"],
      [type |-> <<"T", "2">>, notes |-> "n"],
      [uuid |-> E1] }

\* json.loads(result) of analysis_result_create, less "uuid" and "experiment_uuid"
ResultBodies ==
    { [type |-> <<"R">>, device_name |-> "devP", created_at |-> 1],
      [type |-> <<"R">>, tags |-> <<TagX>>, created_at |-> 2, backend_name |-> "devP"] }

\* json.loads(new_data) of analysis_result_update
ResultUpdates ==
    { [quality |-> "good"],
      [type |-> <<"R", "2">>, verified |-> TRUE],
      [uuid |-> R1] }

(***************************************************************************)
(* Dictionaries                                                            *)
(***************************************************************************)
EmptyDict == <<>>

\* d[k] = v
DictSet(d, k, v) == [x \in DOMAIN d \cup {k} |-> IF x = k THEN v ELSE d[x]]

\* del d[k]
DictDel(d, k) == [x \in DOMAIN d \ {k} |-> d[x]]

\* d restricted to the keys in ks
DictRestrict(d, ks) == [x \in DOMAIN d \cap ks |-> d[x]]

(***************************************************************************)
(* DataFrames                                                              *)
(***************************************************************************)
EmptyFrame == <<>>

Row(label, data) == [index |-> label, data |-> data]

RECURSIVE SelectRows(_, _)
\* df.loc[df.uuid == id]: the rows whose uuid is id, in order
SelectRows(df, id) ==
    IF df = <<>> THEN <<>>
    ELSE LET rest == SelectRows(Tail(df), id)
         IN  IF "uuid" \in DOMAIN Head(df).data /\ Head(df).data["uuid"] = id
             THEN <<Head(df)>> \o rest
             ELSE rest

\* df.index of a frame, as a set
Labels(df) == {df[i].index : i \in 1..Len(df)}

RECURSIVE DropRows(_, _)
\* df.drop(labels, inplace=True)
DropRows(df, labels) ==
    IF df = <<>> THEN <<>>
    ELSE LET rest == DropRows(Tail(df), labels)
         IN  IF Head(df).index \in labels THEN rest ELSE <<Head(df)>> \o rest

\* pd.concat([df, pd.DataFrame([data_dict], columns=df.columns)], ignore_index=True)
ConcatRow(df, data_dict, columns) ==
    LET all == Append(df, Row(0, DictRestrict(data_dict, columns)))
    IN  [i \in 1..Len(all) |-> Row(i - 1, all[i].data)]

\* the row replaced by the payload instead of merged with it
MergeRow_Replace(data, new_data_dict) == new_data_dict

\* for key, value in new_data_dict.items(): df.at[label, key] = value
MergeRow(data, new_data_dict) ==
    [c \in DOMAIN data \cup DOMAIN new_data_dict |->
        IF c \in DOMAIN new_data_dict THEN new_data_dict[c] ELSE data[c]]

AtSetAll(df, label, new_data_dict) ==
    [i \in 1..Len(df) |->
        IF df[i].index = label
        THEN Row(df[i].index, MergeRow(df[i].data, new_data_dict))
        ELSE df[i]]

(***************************************************************************)
(* JSON files: DataFrame.to_json / pd.read_json, orient "columns":         *)
(* column -> (index label -> cell), a NaN cell written as null             *)
(***************************************************************************)
Null == {}
Cell(data, c) == IF c \in DOMAIN data THEN {data[c]} ELSE Null

ToJson(df, columns) ==
    [c \in columns |-> [l \in Labels(df) |->
        Cell(df[CHOOSE i \in 1..Len(df) : df[i].index = l].data, c)]]

RECURSIVE SortedLabels(_)
SortedLabels(S) ==
    IF S = {} THEN <<>>
    ELSE LET m == CHOOSE x \in S : \A y \in S : x <= y
         IN  <<m>> \o SortedLabels(S \ {m})

ReadJson(json) ==
    LET labels == SortedLabels(UNION {DOMAIN json[c] : c \in DOMAIN json})
    IN  [i \in 1..Len(labels) |->
            Row(labels[i],
                [c \in {k \in DOMAIN json : labels[i] \in DOMAIN json[k]
                                            /\ json[k][labels[i]] # Null} |->
                    CHOOSE v \in json[c][labels[i]] : TRUE])]

NoFile == [exists |-> FALSE, json |-> <<>>]
JsonFile(json) == [exists |-> TRUE, json |-> json]

(***************************************************************************)
(* Figure files                                                            *)
(***************************************************************************)
\* f"{exp_id}_{figure_name}"
FileName(exp_id, figure_name) == exp_id \o <<"_">> \o figure_name

\* filename.startswith(exp_id_string)
StartsWith(filename, prefix) ==
    /\ Len(filename) >= Len(prefix)
    /\ SubSeq(filename, 1, Len(prefix)) = prefix

\* the files _save_figures writes, over the files already there
SaveFigures(files, figs) ==
    LET keys == UNION {{e} \X DOMAIN figs[e] : e \in DOMAIN figs}
        written == {FileName(k[1], k[2]) : k \in keys}
    IN  [f \in DOMAIN files \cup written |->
            IF f \in written
            THEN LET w == CHOOSE k \in keys : FileName(k[1], k[2]) = f
                 IN  figs[w[1]][w[2]]
            ELSE files[f]]

\* _get_figure_list
GetFigureList(exps, files) ==
    LET ids == {exps[i].data["uuid"] :
                    i \in {j \in 1..Len(exps) : "uuid" \in DOMAIN exps[j].data}}
    IN  [exp_id \in ids |->
            LET mine == {f \in DOMAIN files : StartsWith(f, exp_id)}
                names == {SubSeq(f, Len(exp_id) + 2, Len(f)) : f \in mine}
            IN  [n \in names |->
                    files[CHOOSE f \in mine : SubSeq(f, Len(exp_id) + 2, Len(f)) = n]]]

NoDir == [exists |-> FALSE, files |-> EmptyDict]

(***************************************************************************)
(* save                                                                    *)
(***************************************************************************)
\* what save() leaves on disk d = <<experiments_file, results_file, figures_dir>>
SavedDisk(ls, exps, ress, figs, d) ==
    IF ls
    THEN <<JsonFile(ToJson(exps, experiment_db_columns)),
           JsonFile(ToJson(ress, results_db_columns)),
           [exists |-> TRUE, files |-> SaveFigures(d[3].files, figs)]>>
    ELSE d

\* self.save() on the tables and figures the handler has built
save(exps, ress, figs) ==
    LET d == SavedDisk(local_save, exps, ress, figs, disk)
    IN  /\ experiments_file' = d[1]
        /\ results_file' = d[2]
        /\ figures_dir' = d[3]

Called(op, args, outcome) ==
    /\ nops < MaxOps
    /\ nops' = nops + 1
    /\ last' = [op |-> op, args |-> args, outcome |-> outcome]

(***************************************************************************)
(* __init__: create_directories, then init_db on a new main_dir            *)
(***************************************************************************)
Init ==
    /\ local_save \in BOOLEAN
    /\ experiments = EmptyFrame
    /\ results = EmptyFrame
    /\ figures = EmptyDict
    /\ LET d == SavedDisk(local_save, EmptyFrame, EmptyFrame, EmptyDict,
                          <<NoFile, NoFile, NoDir>>)
       IN  /\ experiments_file = d[1]
           /\ results_file = d[2]
           /\ figures_dir = d[3]
    /\ issued = {}
    /\ last = [op |-> "__init__", args |-> <<>>, outcome |-> "ok"]
    /\ nops = 0

(***************************************************************************)
(* init_db in a new process on the same main_dir                           *)
(***************************************************************************)
LoadedExperiments ==
    IF local_save
    THEN IF experiments_file.exists THEN ReadJson(experiments_file.json) ELSE EmptyFrame
    ELSE EmptyFrame

LoadedResults ==
    IF local_save
    THEN IF results_file.exists THEN ReadJson(results_file.json) ELSE EmptyFrame
    ELSE EmptyFrame

LoadedFigures ==
    IF local_save
    THEN IF figures_dir.exists
         THEN GetFigureList(LoadedExperiments, figures_dir.files)
         ELSE EmptyDict
    ELSE EmptyDict

init_db ==
    /\ Called("init_db", <<>>, "ok")
    /\ experiments' = LoadedExperiments
    /\ results' = LoadedResults
    /\ figures' = LoadedFigures
    /\ save(LoadedExperiments, LoadedResults, LoadedFigures)
    /\ UNCHANGED <<local_save, issued>>

(***************************************************************************)
(* Experiments                                                             *)
(***************************************************************************)
\* the payloads of experiment_upload: with and without a "uuid" key
ExperimentUploads ==
    ExperimentBodies \cup
    {DictSet(b, "uuid", id) : b \in ExperimentBodies, id \in ExperimentIds}

\* the frame after the loop of experiment_update / analysis_result_update
UpdateFrame(df, id, new_data_dict) ==
    AtSetAll(df, SelectRows(df, id)[1].index, new_data_dict)

\* a drop without inplace=True, whose result is thrown away
DeleteFrame_NotInplace(df, id) == df

\* the frame after the drop of experiment_delete / analysis_result_delete
DeleteFrame(df, id) == DropRows(df, Labels(SelectRows(df, id)))

\* serialize(df.loc[df.uuid == id]) takes record [0] of the selection
SerializeOutcome(df, id) ==
    IF SelectRows(df, id) = <<>> THEN "IndexError" ELSE "ok"

experiment_get(experiment_id) ==
    /\ Called("experiment_get", <<experiment_id>>,
              IF SelectRows(experiments, experiment_id) = <<>>
              THEN "IBMExperimentEntryNotFound" ELSE "ok")
    /\ UNCHANGED <<local_save, mem, disk, issued>>

\* if "uuid" not in data_dict: data_dict["uuid"] = str(uuid.uuid4())
WithUuid(data, generated) ==
    IF "uuid" \in DOMAIN data THEN data ELSE DictSet(data, "uuid", generated)

\* what uuid.uuid4() may return to a handler given this payload: a value it
\* has not returned before; NoUuid4 when the handler does not call it
NoUuid4 == <<>>
Uuid4For(data) ==
    IF "uuid" \in DOMAIN data THEN {NoUuid4} ELSE Uuid4Values \ issued

Uuid4Called(data, generated) ==
    issued' = IF "uuid" \in DOMAIN data THEN issued ELSE issued \cup {generated}

\* the check of experiment_upload for an existing entry
UploadExists(df, data_dict) == SelectRows(df, data_dict["uuid"]) # <<>>

experiment_upload(data, generated) ==
    LET data_dict == WithUuid(data, generated)
    IN  IF UploadExists(experiments, data_dict)
        THEN /\ Called("experiment_upload", <<data_dict>>, "IBMExperimentEntryExists")
             /\ Uuid4Called(data, generated)
             /\ UNCHANGED <<local_save, mem, disk>>
        ELSE LET new == ConcatRow(experiments, data_dict, experiment_db_columns)
             IN  /\ Called("experiment_upload", <<data_dict>>, "ok")
                 /\ experiments' = new
                 /\ save(new, results, figures)
                 /\ Uuid4Called(data, generated)
                 /\ UNCHANGED <<local_save, results, figures>>

experiment_update(experiment_id, new_data_dict) ==
    IF SelectRows(experiments, experiment_id) = <<>>
    THEN /\ Called("experiment_update", <<experiment_id, new_data_dict>>,
                   "IBMExperimentEntryNotFound")
         /\ UNCHANGED <<local_save, mem, disk, issued>>
    ELSE LET new == UpdateFrame(experiments, experiment_id, new_data_dict)
         IN  /\ Called("experiment_update", <<experiment_id, new_data_dict>>,
                       SerializeOutcome(new, experiment_id))
             /\ experiments' = new
             /\ save(new, results, figures)
             /\ UNCHANGED <<local_save, results, figures, issued>>

RECURSIVE DropResultsOf(_, _)
DropResultsOf(ress, experiment_id) ==
    IF ress = <<>> THEN <<>>
    ELSE LET rest == DropResultsOf(Tail(ress), experiment_id)
         IN  IF Cell(Head(ress).data, "experiment_uuid") = {experiment_id}
             THEN rest ELSE <<Head(ress)>> \o rest

\* a delete that also removes the analysis results of the experiment
experiment_delete_Cascade(experiment_id) ==
    IF SelectRows(experiments, experiment_id) = <<>>
    THEN /\ Called("experiment_delete", <<experiment_id>>, "IBMExperimentEntryNotFound")
         /\ UNCHANGED <<local_save, mem, disk, issued>>
    ELSE LET new == DropRows(experiments, Labels(SelectRows(experiments, experiment_id)))
             ress == DropResultsOf(results, experiment_id)
         IN  /\ Called("experiment_delete", <<experiment_id>>, "ok")
             /\ experiments' = new
             /\ results' = ress
             /\ save(new, ress, figures)
             /\ UNCHANGED <<local_save, figures, issued>>

experiment_delete(experiment_id) ==
    IF SelectRows(experiments, experiment_id) = <<>>
    THEN /\ Called("experiment_delete", <<experiment_id>>, "IBMExperimentEntryNotFound")
         /\ UNCHANGED <<local_save, mem, disk, issued>>
    ELSE LET new == DeleteFrame(experiments, experiment_id)
         IN  /\ Called("experiment_delete", <<experiment_id>>, "ok")
             /\ experiments' = new
             /\ save(new, results, figures)
             /\ UNCHANGED <<local_save, results, figures, issued>>

(***************************************************************************)
(* Figures                                                                 *)
(***************************************************************************)
\* line 383-384: if experiment_id not in self._figures: self._figures[experiment_id] = {}
WithFigureEntry(figs, experiment_id) ==
    IF experiment_id \in DOMAIN figs THEN figs ELSE DictSet(figs, experiment_id, EmptyDict)

\* exp_figures[plot_name] = plot
SetFigure(figs, experiment_id, plot_name, plot) ==
    DictSet(figs, experiment_id, DictSet(figs[experiment_id], plot_name, plot))

\* del exp_figures[plot_name]
DelFigure(figs, experiment_id, plot_name) ==
    DictSet(figs, experiment_id, DictDel(figs[experiment_id], plot_name))

\* an upload that replaces the plot of a name already there
experiment_plot_upload_Overwrite(experiment_id, plot, plot_name) ==
    LET new == SetFigure(WithFigureEntry(figures, experiment_id),
                         experiment_id, plot_name, plot)
    IN  /\ Called("experiment_plot_upload", <<experiment_id, plot, plot_name>>, "ok")
        /\ figures' = new
        /\ save(experiments, results, new)
        /\ UNCHANGED <<local_save, experiments, results, issued>>

experiment_plot_upload(experiment_id, plot, plot_name) ==
    LET figs == WithFigureEntry(figures, experiment_id)
    IN  IF plot_name \in DOMAIN figs[experiment_id]
        THEN /\ Called("experiment_plot_upload", <<experiment_id, plot, plot_name>>,
                       "RequestsApiError_409")
             /\ figures' = figs
             /\ UNCHANGED <<local_save, experiments, results, disk, issued>>
        ELSE LET new == SetFigure(figs, experiment_id, plot_name, plot)
             IN  /\ Called("experiment_plot_upload", <<experiment_id, plot, plot_name>>, "ok")
                 /\ figures' = new
                 /\ save(experiments, results, new)
                 /\ UNCHANGED <<local_save, experiments, results, issued>>

experiment_plot_update(experiment_id, plot, plot_name) ==
    IF experiment_id \notin DOMAIN figures
    THEN /\ Called("experiment_plot_update", <<experiment_id, plot, plot_name>>, "KeyError")
         /\ UNCHANGED <<local_save, mem, disk, issued>>
    ELSE IF plot_name \notin DOMAIN figures[experiment_id]
    THEN /\ Called("experiment_plot_update", <<experiment_id, plot, plot_name>>,
                   "RequestsApiError_404")
         /\ UNCHANGED <<local_save, mem, disk, issued>>
    ELSE LET new == SetFigure(figures, experiment_id, plot_name, plot)
         IN  /\ Called("experiment_plot_update", <<experiment_id, plot, plot_name>>, "ok")
             /\ figures' = new
             /\ save(experiments, results, new)
             /\ UNCHANGED <<local_save, experiments, results, issued>>

\* the call recorded with the value it returned
CalledReturning(op, args, outcome, ret) ==
    /\ nops < MaxOps
    /\ nops' = nops + 1
    /\ last' = [op |-> op, args |-> args, outcome |-> outcome, ret |-> ret]

experiment_plot_get(experiment_id, plot_name) ==
    /\ IF experiment_id \notin DOMAIN figures
       THEN CalledReturning("experiment_plot_get", <<experiment_id, plot_name>>,
                            "KeyError", Null)
       ELSE IF plot_name \notin DOMAIN figures[experiment_id]
       THEN CalledReturning("experiment_plot_get", <<experiment_id, plot_name>>,
                            "RequestsApiError_404", Null)
       ELSE CalledReturning("experiment_plot_get", <<experiment_id, plot_name>>,
                            "ok", {figures[experiment_id][plot_name]})
    /\ UNCHANGED <<local_save, mem, disk, issued>>

experiment_plot_delete(experiment_id, plot_name) ==
    IF experiment_id \notin DOMAIN figures
    THEN /\ Called("experiment_plot_delete", <<experiment_id, plot_name>>, "KeyError")
         /\ UNCHANGED <<local_save, mem, disk, issued>>
    ELSE IF plot_name \notin DOMAIN figures[experiment_id]
    THEN /\ Called("experiment_plot_delete", <<experiment_id, plot_name>>,
                   "RequestsApiError_404")
         /\ UNCHANGED <<local_save, mem, disk, issued>>
    ELSE /\ Called("experiment_plot_delete", <<experiment_id, plot_name>>, "ok")
         /\ figures' = DelFigure(figures, experiment_id, plot_name)
         /\ UNCHANGED <<local_save, experiments, results, disk, issued>>

(***************************************************************************)
(* Analysis results                                                        *)
(***************************************************************************)
\* the payloads of analysis_result_create
ResultCreates ==
    LET withId == ResultBodies \cup
                  {DictSet(b, "uuid", id) : b \in ResultBodies, id \in ResultIds}
    IN  withId \cup
        {DictSet(b, "experiment_uuid", e) : b \in withId, e \in ExperimentIds}

\* the payload stored as it came, without the copy of the device name
WithDeviceName_Payload(data_dict, exps, exp_id) == data_dict

\* lines 585-586: data_dict["device_name"] = self._experiments.at[exp_index, "device_name"]
WithDeviceName(data_dict, exps, exp_id) ==
    LET exp == SelectRows(exps, exp_id)[1].data
    IN  IF "device_name" \in DOMAIN exp
        THEN DictSet(data_dict, "device_name", exp["device_name"])
        ELSE DictDel(data_dict, "device_name")

\* the frame analysis_result_create builds (lines 585-591)
CreateFrame(ress, exps, result, generated) ==
    ConcatRow(ress,
              WithUuid(WithDeviceName(result, exps, result["experiment_uuid"]), generated),
              results_db_columns)

\* the two checks folded into the lookup: a missing id reported as not found
CreateOutcome_NoIdCheck(exps, result) ==
    IF \/ "experiment_uuid" \notin DOMAIN result
       \/ SelectRows(exps, result["experiment_uuid"]) = <<>>
    THEN "RequestsApiError_404"
    ELSE "ok"

\* the checks of analysis_result_create (lines 577-584)
CreateOutcome(exps, result) ==
    IF "experiment_uuid" \notin DOMAIN result THEN "RequestsApiError"
    ELSE IF SelectRows(exps, result["experiment_uuid"]) = <<>> THEN "RequestsApiError_404"
    ELSE "ok"

analysis_result_create(result, generated) ==
    IF CreateOutcome(experiments, result) # "ok"
    THEN /\ Called("analysis_result_create", <<result>>, CreateOutcome(experiments, result))
         /\ UNCHANGED <<local_save, mem, disk, issued>>
    ELSE LET new == CreateFrame(results, experiments, result, generated)
         IN  /\ Called("analysis_result_create", <<result>>, "ok")
             /\ results' = new
             /\ save(experiments, new, figures)
             /\ Uuid4Called(result, generated)
             /\ UNCHANGED <<local_save, experiments, figures>>

analysis_result_update(result_id, new_data_dict) ==
    IF SelectRows(results, result_id) = <<>>
    THEN /\ Called("analysis_result_update", <<result_id, new_data_dict>>,
                   "IBMExperimentEntryNotFound")
         /\ UNCHANGED <<local_save, mem, disk, issued>>
    ELSE LET new == UpdateFrame(results, result_id, new_data_dict)
         IN  /\ Called("analysis_result_update", <<result_id, new_data_dict>>,
                       SerializeOutcome(new, result_id))
             /\ results' = new
             /\ save(experiments, new, figures)
             /\ UNCHANGED <<local_save, experiments, figures, issued>>

analysis_result_delete(result_id) ==
    IF SelectRows(results, result_id) = <<>>
    THEN /\ Called("analysis_result_delete", <<result_id>>, "IBMExperimentEntryNotFound")
         /\ UNCHANGED <<local_save, mem, disk, issued>>
    ELSE LET new == DeleteFrame(results, result_id)
         IN  /\ Called("analysis_result_delete", <<result_id>>, "ok")
             /\ results' = new
             /\ save(experiments, new, figures)
             /\ UNCHANGED <<local_save, experiments, figures, issued>>

analysis_result_get(result_id) ==
    /\ Called("analysis_result_get", <<result_id>>,
              IF SelectRows(results, result_id) = <<>>
              THEN "IBMExperimentEntryNotFound" ELSE "ok")
    /\ UNCHANGED <<local_save, mem, disk, issued>>

(***************************************************************************)
(* The caller                                                              *)
(***************************************************************************)
AnyExperimentId == ExperimentIds \cup Uuid4Values
AnyResultId == ResultIds \cup Uuid4Values

Next ==
    \/ init_db
    \/ \E id \in AnyExperimentId : experiment_get(id)
    \/ \E data \in ExperimentUploads : \E g \in Uuid4For(data) : experiment_upload(data, g)
    \/ \E id \in AnyExperimentId, new \in ExperimentUpdates : experiment_update(id, new)
    \/ \E id \in AnyExperimentId : experiment_delete(id)
    \/ \E id \in ExperimentIds, plot \in PlotData, name \in PlotNames :
            experiment_plot_upload(id, plot, name)
    \/ \E id \in ExperimentIds, plot \in PlotData, name \in PlotNames :
            experiment_plot_update(id, plot, name)
    \/ \E id \in ExperimentIds, name \in PlotNames : experiment_plot_get(id, name)
    \/ \E id \in ExperimentIds, name \in PlotNames : experiment_plot_delete(id, name)
    \/ \E result \in ResultCreates : \E g \in Uuid4For(result) :
            analysis_result_create(result, g)
    \/ \E id \in AnyResultId, new \in ResultUpdates : analysis_result_update(id, new)
    \/ \E id \in AnyResultId : analysis_result_delete(id)
    \/ \E id \in AnyResultId : analysis_result_get(id)

Spec == Init /\ [][Next]_vars

(***************************************************************************)
(* Strings                                                                 *)
(***************************************************************************)
\* the characters of the identifiers, in the order Python compares them
Alphabet ==
    <<"0", "1", "2", "3", "4", "5", "6", "7", "8", "9",
      "a", "b", "c", "e", "n", "r", "u">>

CharRank(c) == CHOOSE i \in 1..Len(Alphabet) : Alphabet[i] = c

RECURSIVE StrLess(_, _)
\* a < b on strings
StrLess(a, b) ==
    IF b = <<>> THEN FALSE
    ELSE IF a = <<>> THEN TRUE
    ELSE IF Head(a) = Head(b) THEN StrLess(Tail(a), Tail(b))
    ELSE CharRank(Head(a)) < CharRank(Head(b))

RECURSIVE Split(_, _)
\* s.split(sep)
Split(s, sep) ==
    LET at == {i \in 1..Len(s) : s[i] = sep}
    IN  IF at = {} THEN <<s>>
        ELSE LET i == CHOOSE k \in at : \A j \in at : k <= j
             IN  <<SubSeq(s, 1, i - 1)>> \o Split(SubSeq(s, i + 1, Len(s)), sep)

\* sub occurs in s
Contains(s, sub) ==
    \E i \in 0..(Len(s) - Len(sub)) : SubSeq(s, i + 1, i + Len(sub)) = sub

\* s[:n]
Slice(s, n) == SubSeq(s, 1, IF Len(s) < n THEN Len(s) ELSE n)

LikePrefix == <<"l", "i", "k", "e", ":">>
Asc == <<"a", "s", "c">>
Desc == <<"d", "e", "s", "c">>
StartDatetime == <<"s", "t", "a", "r", "t", "_", "d", "a", "t", "e", "t", "i", "m", "e">>
CreationDatetime ==
    <<"c", "r", "e", "a", "t", "i", "o", "n", "_", "d", "a", "t", "e", "t", "i", "m", "e">>

(***************************************************************************)
(* The list operations: experiments and analysis_results                   *)
(*                                                                         *)
(* An optional argument is Null (None) or {value}.  limit is               *)
(* [given, value]: given is FALSE when the caller leaves the argument out. *)
(* sort_by is [list, items]: a string is one item with list FALSE.         *)
(***************************************************************************)
DefaultLimit == 10

Get(opt) == CHOOSE v \in opt : TRUE

Raised(exception) == [outcome |-> exception, df |-> EmptyFrame]
Passed(df) == [outcome |-> "ok", df |-> df]

\* df.loc[df.<column> == value]
ColumnEquals(df, column, value) ==
    SelectSeq(df, LAMBDA r : Cell(r.data, column) = {value})

\* the pattern taken whole: everything after the prefix
LikePattern_Rest(type) == SubSeq(type, 6, Len(type))

\* experiment_type.split(":")[1]
LikePattern(type) == Split(type, ":")[2]

\* the type filter (lines 203-208, 505-510); a NaN type leaves str.contains
\* with a mask that is not boolean, which df.loc rejects
TypeFilter(df, type) ==
    IF type = Null THEN Passed(df)
    ELSE IF Slice(Get(type), 5) = LikePrefix
    THEN IF \E i \in 1..Len(df) : "type" \notin DOMAIN df[i].data
         THEN Raised("ValueError")
         ELSE Passed(SelectSeq(df, LAMBDA r :
                        Contains(r.data["type"], LikePattern(Get(type)))))
    ELSE Passed(ColumnEquals(df, "type", Get(type)))

\* the two tests exchanged
TagsTest_Exchanged(dftags, tags, quantifier) ==
    IF quantifier = "all"
    THEN \E i \in 1..Len(tags) : \E j \in 1..Len(dftags) : dftags[j] = tags[i]
    ELSE \A i \in 1..Len(tags) : \E j \in 1..Len(dftags) : dftags[j] = tags[i]

\* any(x in dftags for x in tags), all(x in dftags for x in tags)
TagsTest(dftags, tags, quantifier) ==
    IF quantifier = "any"
    THEN \E i \in 1..Len(tags) : \E j \in 1..Len(dftags) : dftags[j] = tags[i]
    ELSE \A i \in 1..Len(tags) : \E j \in 1..Len(dftags) : dftags[j] = tags[i]

\* df.loc[df.tags.apply(...)]; x in dftags on a NaN cell is a TypeError
TagsApply(df, tags, quantifier) ==
    IF tags # <<>> /\ \E i \in 1..Len(df) : "tags" \notin DOMAIN df[i].data
    THEN Raised("TypeError")
    ELSE Passed(SelectSeq(df, LAMBDA r :
                    IF "tags" \in DOMAIN r.data
                    THEN TagsTest(r.data["tags"], tags, quantifier)
                    ELSE quantifier = "all"))

\* the tags filter of experiments (lines 226-236)
ExperimentsTagsFilter(df, tags, tags_operator) ==
    IF tags = Null THEN Passed(df)
    ELSE IF tags_operator = "OR" THEN TagsApply(df, Get(tags), "any")
    ELSE IF tags_operator = "AND" THEN TagsApply(df, Get(tags), "all")
    ELSE Raised("ValueError")

\* the tags filter of analysis_results (lines 518-530): the unpacking of
\* tags.split(":") needs exactly two parts
ResultsTagsFilter(df, tags) ==
    IF tags = Null THEN Passed(df)
    ELSE LET parts == Split(Get(tags), ":")
         IN  IF Len(parts) # 2 THEN Raised("ValueError")
             ELSE IF parts[1] = <<"a", "n", "y", ":">>
                  THEN TagsApply(df, Split(parts[2], ","), "any")
             ELSE IF parts[1] = <<"A", "N", "D">>
                  THEN TagsApply(df, Split(parts[2], ","), "all")
             ELSE Raised("ValueError")

\* the start_datetime_before and start_datetime_after filters (lines 238-241)
TimeFilter(df, filters) ==
    LET before == IF "start_datetime_before" \in DOMAIN filters
                  THEN SelectSeq(df, LAMBDA r :
                           /\ "start_time" \in DOMAIN r.data
                           /\ r.data["start_time"] <= filters["start_datetime_before"])
                  ELSE df
    IN  IF "start_datetime_after" \in DOMAIN filters
        THEN SelectSeq(before, LAMBDA r :
                 /\ "start_time" \in DOMAIN r.data
                 /\ r.data["start_time"] >= filters["start_datetime_after"])
        ELSE before

\* the checks without the one of the field name
SortDirection_AnyField(sort_by, field) ==
    LET items == IF sort_by = Null THEN <<field \o <<":">> \o Desc>>
                 ELSE Get(sort_by).items
    IN  IF Len(items) # 1 THEN "ValueError"
        ELSE LET sortby_split == Split(items[1], ":")
             IN  IF \/ Len(sortby_split) # 2
                    \/ (sortby_split[2] # Asc /\ sortby_split[2] # Desc)
                 THEN "ValueError"
                 ELSE IF sortby_split[2] = Asc THEN "asc" ELSE "desc"

\* the checks of sort_by (lines 243-266, 532-554): "asc", "desc" or the error
SortDirection(sort_by, field) ==
    LET items == IF sort_by = Null THEN <<field \o <<":">> \o Desc>>
                 ELSE Get(sort_by).items
    IN  IF Len(items) # 1 THEN "ValueError"
        ELSE LET sortby_split == Split(items[1], ":")
             IN  IF \/ Len(sortby_split) # 2
                    \/ sortby_split[1] # field
                    \/ (sortby_split[2] # Asc /\ sortby_split[2] # Desc)
                 THEN "ValueError"
                 ELSE IF sortby_split[2] = Asc THEN "asc" ELSE "desc"

\* the order of one sort key; a NaN key goes last
TimestampBefore(x, y, asc) ==
    IF x = Null THEN FALSE
    ELSE IF y = Null THEN TRUE
    ELSE IF asc THEN Get(x) < Get(y) ELSE Get(x) > Get(y)

UuidBefore(x, y) ==
    IF x = Null THEN FALSE
    ELSE IF y = Null THEN TRUE
    ELSE StrLess(Get(x), Get(y))

\* the order with the timestamp as its only key
RowBefore_TimestampOnly(a, b, timestamp, asc) ==
    TimestampBefore(Cell(a.data, timestamp), Cell(b.data, timestamp), asc)

\* the order of sort_values([timestamp, "uuid"], ascending=[asc, True])
RowBefore(a, b, timestamp, asc) ==
    \/ TimestampBefore(Cell(a.data, timestamp), Cell(b.data, timestamp), asc)
    \/ /\ Cell(a.data, timestamp) = Cell(b.data, timestamp)
       /\ UuidBefore(Cell(a.data, "uuid"), Cell(b.data, "uuid"))

\* r put into the sorted frame after the rows it does not precede
InsertRow(sorted, r, timestamp, asc) ==
    LET after == {i \in 1..Len(sorted) : RowBefore(r, sorted[i], timestamp, asc)}
        at == IF after = {} THEN Len(sorted) + 1
              ELSE CHOOSE i \in after : \A j \in after : i <= j
    IN  SubSeq(sorted, 1, at - 1) \o <<r>> \o SubSeq(sorted, at, Len(sorted))

RECURSIVE SortValues(_, _, _)
\* df.sort_values([timestamp, "uuid"], ascending=[asc, True])
SortValues(df, timestamp, asc) ==
    IF df = <<>> THEN <<>>
    ELSE InsertRow(SortValues(SubSeq(df, 1, Len(df) - 1), timestamp, asc),
                   df[Len(df)], timestamp, asc)

\* the last rows instead of the first
Truncate_Tail(df, limit) ==
    IF limit = Null \/ Get(limit) >= Len(df) THEN df
    ELSE SubSeq(df, Len(df) - Get(limit) + 1, Len(df))

\* df.iloc[:limit]
Truncate(df, limit) ==
    IF limit = Null THEN df
    ELSE IF Get(limit) >= 0
    THEN SubSeq(df, 1, IF Get(limit) < Len(df) THEN Get(limit) ELSE Len(df))
    ELSE SubSeq(df, 1, IF Len(df) + Get(limit) > 0 THEN Len(df) + Get(limit) ELSE 0)

\* a limit left out is no limit
ExperimentsLimit_NoDefault(limit) == limit.value

\* limit: Optional[int] = 10 (line 166)
ExperimentsLimit(limit) == IF limit.given THEN limit.value ELSE {DefaultLimit}

\* to_dict("records")
Records(df) == [i \in 1..Len(df) |-> df[i].data]

\* the frame experiments builds from self._experiments (lines 201-272)
ExperimentsFrame(df, a) ==
    LET typed == TypeFilter(df, a.experiment_type)
    IN  IF typed.outcome # "ok" THEN typed
        ELSE LET on_backend == IF a.backend_name = Null THEN typed.df
                               ELSE ColumnEquals(typed.df, "device_name",
                                                 Get(a.backend_name))
                 children == IF a.parent_id = Null THEN on_backend
                             ELSE ColumnEquals(on_backend, "parent_experiment_uuid",
                                               Get(a.parent_id))
             IN  IF a.device_components # Null THEN Raised("ValueError")
                 ELSE LET tagged == ExperimentsTagsFilter(children, a.tags,
                                                          a.tags_operator)
                      IN  IF tagged.outcome # "ok" THEN tagged
                          ELSE LET sort_by == IF "sort_by" \in DOMAIN a.filters
                                              THEN {a.filters["sort_by"]} ELSE Null
                                   direction == SortDirection(sort_by, StartDatetime)
                               IN  IF direction = "ValueError" THEN Raised("ValueError")
                                   ELSE Passed(Truncate(
                                            SortValues(TimeFilter(tagged.df, a.filters),
                                                       "start_time", direction = "asc"),
                                            ExperimentsLimit(a.limit)))

\* the frame analysis_results builds from self._results (lines 497-560);
\* the results table has no backend_name column (line 512)
AnalysisResultsFrame(df, a) ==
    LET of_experiment == IF a.experiment_uuid = Null THEN df
                         ELSE ColumnEquals(df, "experiment_uuid", Get(a.experiment_uuid))
        typed == TypeFilter(of_experiment, a.result_type)
    IN  IF typed.outcome # "ok" THEN typed
        ELSE IF a.backend_name # Null THEN Raised("AttributeError")
        ELSE LET of_quality == IF a.quality = Null THEN typed.df
                               ELSE ColumnEquals(typed.df, "quality", Get(a.quality))
                 of_verified == IF a.verified = Null THEN of_quality
                                ELSE ColumnEquals(of_quality, "verified", Get(a.verified))
                 tagged == ResultsTagsFilter(of_verified, a.tags)
             IN  IF tagged.outcome # "ok" THEN tagged
                 ELSE LET direction == SortDirection(a.sort_by, CreationDatetime)
                      IN  IF direction = "ValueError" THEN Raised("ValueError")
                          ELSE Passed(Truncate(
                                   SortValues(tagged.df, "created_at", direction = "asc"),
                                   a.limit.value))

ListCalled(op, a, r) == CalledReturning(op, a, r.outcome, Records(r.df))

\* a sort with inplace=True on the stored table
experiments_list_InPlace(a) ==
    /\ ListCalled("experiments", a, ExperimentsFrame(experiments, a))
    /\ experiments' = SortValues(experiments, "start_time", FALSE)
    /\ UNCHANGED <<local_save, results, figures, disk, issued>>

experiments_list(a) ==
    /\ ListCalled("experiments", a, ExperimentsFrame(experiments, a))
    /\ UNCHANGED <<local_save, mem, disk, issued>>

analysis_results(a) ==
    /\ ListCalled("analysis_results", a, AnalysisResultsFrame(results, a))
    /\ UNCHANGED <<local_save, mem, disk, issued>>

(***************************************************************************)
(* The list operations on stored tables: the tables are those a sequence   *)
(* of uploads and creates leaves, and the caller makes one list call.      *)
(***************************************************************************)
MaxStored == 2      \* rows of a stored table, the long table apart
MaxLimit == 2       \* the largest limit a caller passes

E0 == <<"e", "0">>
E3 == <<"e", "3">>
R0 == <<"r", "0">>
R2 == <<"r", "2">>

\* payloads of experiment_upload: E1 and E3 start together, E0 and E2 too
ListedExperiments ==
    { [uuid |-> E1, type |-> <<"a", "b">>, device_name |-> "dev1",
       tags |-> <<TagX>>, start_time |-> 1],
      [uuid |-> E2, type |-> <<"a", ":", "b">>, device_name |-> "dev2",
       tags |-> <<TagY>>, start_time |-> 2, parent_experiment_uuid |-> E1],
      [uuid |-> E3, type |-> <<"c", "a", "b">>, device_name |-> "dev1",
       tags |-> <<TagX, TagY>>, start_time |-> 1, parent_experiment_uuid |-> E1],
      [uuid |-> E0, type |-> <<"b">>, device_name |-> "dev2",
       tags |-> <<>>, start_time |-> 2] }

\* payloads of analysis_result_create: R0 and R1 are created together
ListedResults ==
    { [uuid |-> R1, experiment_uuid |-> E1, type |-> <<"a", "b">>,
       tags |-> <<TagX>>, created_at |-> 1, quality |-> "good", verified |-> TRUE],
      [uuid |-> R2, experiment_uuid |-> E2, type |-> <<"a", ":", "b">>,
       tags |-> <<TagY>>, created_at |-> 2, quality |-> "bad", verified |-> FALSE],
      [uuid |-> R0, experiment_uuid |-> E1, type |-> <<"c", "a", "b">>,
       tags |-> <<TagX, TagY>>, created_at |-> 1] }

\* the sequences of at most MaxStored different payloads
Orders(payloads) ==
    {s \in UNION {[1..n -> payloads] : n \in 0..MaxStored} :
        \A i, j \in 1..Len(s) : i # j => s[i] # s[j]}

RECURSIVE Uploaded(_)
\* the experiments table after these uploads
Uploaded(payloads) ==
    IF payloads = <<>> THEN EmptyFrame
    ELSE ConcatRow(Uploaded(SubSeq(payloads, 1, Len(payloads) - 1)),
                   payloads[Len(payloads)], experiment_db_columns)

\* more experiments than the default limit, uploaded oldest first
ManyExperiments ==
    Uploaded([i \in 1..(DefaultLimit + 1) |->
                [uuid |-> <<"n", Alphabet[i]>>, type |-> <<"a", "b">>,
                 device_name |-> "dev1", tags |-> <<TagX>>, start_time |-> i]])

\* the experiments the listed results belong to
TwoExperiments ==
    Uploaded(<<[uuid |-> E1, type |-> <<"a", "b">>, device_name |-> "dev1",
                tags |-> <<TagX>>, start_time |-> 1],
               [uuid |-> E2, type |-> <<"a", ":", "b">>, device_name |-> "dev2",
                tags |-> <<TagY>>, start_time |-> 2]>>)

RECURSIVE Created(_)
\* the results table after these creates
Created(payloads) ==
    IF payloads = <<>> THEN EmptyFrame
    ELSE CreateFrame(Created(SubSeq(payloads, 1, Len(payloads) - 1)), TwoExperiments,
                     payloads[Len(payloads)], NoUuid4)

Stores ==
    {<<Uploaded(s), EmptyFrame>> : s \in Orders(ListedExperiments)}
    \cup {<<ManyExperiments, EmptyFrame>>}
    \cup {<<TwoExperiments, Created(s)>> : s \in Orders(ListedResults)}

InitList ==
    /\ local_save = FALSE
    /\ \E store \in Stores :
          /\ experiments = store[1]
          /\ results = store[2]
    /\ figures = EmptyDict
    /\ experiments_file = NoFile
    /\ results_file = NoFile
    /\ figures_dir = NoDir
    /\ issued = {}
    /\ last = [op |-> "__init__", args |-> <<>>, outcome |-> "ok"]
    /\ nops = MaxOps - 1

\* the arguments of the list calls
NoLimit == [given |-> TRUE, value |-> Null]
Limits == {[given |-> TRUE, value |-> v] : v \in {Null} \cup {{n} : n \in 0..MaxLimit}}
TypeArguments ==
    {Null, {<<"a", "b">>}, {LikePrefix \o <<"a", "b">>}, {LikePrefix \o <<"a", ":", "b">>}}
OneString(s) == [list |-> FALSE, items |-> <<s>>]
\* no sort_by; asc and desc of the field as a string, asc as a list of one; a
\* direction that is neither; a list of two; another field; no direction
SortArguments(field) ==
    {Null, {OneString(field \o <<":">> \o Asc)}, {OneString(field \o <<":">> \o Desc)},
     {[list |-> TRUE, items |-> <<field \o <<":">> \o Asc>>]},
     {OneString(field \o <<":", "u", "p">>)},
     {[list |-> TRUE, items |-> <<field \o <<":">> \o Asc, field \o <<":">> \o Desc>>]},
     {OneString(<<"u", "u", "i", "d", ":">> \o Asc)},
     {OneString(field)}}

\* the keyword arguments that are given, as a dictionary
Keyword(key, opt) == IF opt = Null THEN EmptyDict ELSE [k \in {key} |-> Get(opt)]

ExperimentsFilters ==
    {Keyword("start_datetime_before", t[1]) @@ Keyword("start_datetime_after", t[2])
        @@ Keyword("sort_by", s) :
        t \in {<<Null, Null>>, <<{1}, Null>>, <<Null, {2}>>},
        s \in SortArguments(StartDatetime)}

ExperimentsCalls ==
    {[limit |-> l, device_components |-> dc, experiment_type |-> t, backend_name |-> b,
      tags |-> g[1], parent_id |-> p, tags_operator |-> g[2], filters |-> f] :
        l \in Limits \cup {[given |-> FALSE, value |-> Null]},
        dc \in {Null, {"Q0"}},
        t \in TypeArguments,
        b \in {Null, {"dev1"}},
        g \in {<<Null, "OR">>}
                \cup ({{<<TagX, TagY>>}, {<<TagX>>}, {<<>>}} \X {"OR", "AND", "XOR"}),
        p \in {Null, {E1}},
        f \in ExperimentsFilters}

AnalysisResultsCalls ==
    {[limit |-> l, marker |-> Null, backend_name |-> b, device_components |-> dc,
      experiment_uuid |-> e, result_type |-> t, quality |-> q[1], verified |-> q[2],
      tags |-> g, created_at |-> Null, sort_by |-> s] :
        l \in Limits,
        b \in {Null, {"dev1"}},
        dc \in {Null, {"Q0"}},
        e \in {Null, {E1}},
        t \in TypeArguments,
        q \in {<<Null, Null>>, <<{"good"}, Null>>, <<Null, {TRUE}>>},
        g \in {Null, {<<"a", "n", "y", ":", "x", ",", "y">>},
               {<<"A", "N", "D", ":", "x", ",", "y">>},
               {<<"X", "O", "R", ":", "x">>}, {<<"x">>}},
        s \in SortArguments(CreationDatetime)}

\* the caller has a call left
CallLeft == nops < MaxOps

NextList ==
    \/ CallLeft /\ \E a \in ExperimentsCalls : experiments_list(a)
    \/ CallLeft /\ \E a \in AnalysisResultsCalls : analysis_results(a)

SpecList == InitList /\ [][NextList]_vars

(***************************************************************************)
(* The whole client: every operation, the list operations with a few       *)
(* argument sets, accepted and refused                                     *)
(***************************************************************************)
PlainExperimentsCall ==
    [limit |-> [given |-> FALSE, value |-> Null], device_components |-> Null,
     experiment_type |-> Null, backend_name |-> Null, tags |-> Null,
     parent_id |-> Null, tags_operator |-> "OR", filters |-> EmptyDict]

PlainAnalysisResultsCall ==
    [limit |-> NoLimit, marker |-> Null, backend_name |-> Null,
     device_components |-> Null, experiment_uuid |-> Null, result_type |-> Null,
     quality |-> Null, verified |-> Null, tags |-> Null, created_at |-> Null,
     sort_by |-> Null]

ClientExperimentsCalls ==
    {PlainExperimentsCall,
     [PlainExperimentsCall EXCEPT !.device_components = {"Q0"}],
     [PlainExperimentsCall EXCEPT !.tags = {<<TagX>>}, !.tags_operator = "XOR"],
     [PlainExperimentsCall EXCEPT
         !.filters = Keyword("sort_by", {OneString(StartDatetime \o <<":", "u", "p">>)})],
     [PlainExperimentsCall EXCEPT
         !.filters = Keyword("sort_by", {OneString(StartDatetime \o <<":">> \o Asc)})]}

ClientAnalysisResultsCalls ==
    {PlainAnalysisResultsCall,
     [PlainAnalysisResultsCall EXCEPT !.tags = {<<"a", "n", "y", ":", "x">>}],
     [PlainAnalysisResultsCall EXCEPT
         !.sort_by = {OneString(CreationDatetime \o <<":">> \o Asc)}]}

NextClient ==
    \/ Next
    \/ \E a \in ClientExperimentsCalls : experiments_list(a)
    \/ \E a \in ClientAnalysisResultsCalls : analysis_results(a)

SpecClient == Init /\ [][NextClient]_vars

(***************************************************************************)
(* A save that fails: to_json or a figure write raises OSError at one of   *)
(* the three writes of save, the writes before it done.  The handlers that *)
(* call save have changed the tables or the figures by then, and nothing   *)
(* catches the exception.                                                  *)
(***************************************************************************)
SavePoints == {1, 2, 3}

\* the disk after save has failed at its write number point
FailedDisk(exps, ress, d, point) ==
    <<IF point > 1 THEN JsonFile(ToJson(exps, experiment_db_columns)) ELSE d[1],
      IF point > 2 THEN JsonFile(ToJson(ress, results_db_columns)) ELSE d[2],
      d[3]>>

\* the handler op has built exps, ress and figs, and its self.save() raises
SaveFails(op, args, exps, ress, figs, point) ==
    /\ local_save
    /\ Called(op, args, "OSError")
    /\ experiments' = exps
    /\ results' = ress
    /\ figures' = figs
    /\ LET d == FailedDisk(exps, ress, disk, point)
       IN  /\ experiments_file' = d[1]
           /\ results_file' = d[2]
           /\ figures_dir' = d[3]
    /\ UNCHANGED local_save

experiment_upload_SaveFails(data, generated, point) ==
    LET data_dict == WithUuid(data, generated)
    IN  /\ ~UploadExists(experiments, data_dict)
        /\ SaveFails("experiment_upload", <<data_dict>>,
                     ConcatRow(experiments, data_dict, experiment_db_columns),
                     results, figures, point)
        /\ Uuid4Called(data, generated)

experiment_update_SaveFails(experiment_id, new_data_dict, point) ==
    /\ SelectRows(experiments, experiment_id) # <<>>
    /\ SaveFails("experiment_update", <<experiment_id, new_data_dict>>,
                 UpdateFrame(experiments, experiment_id, new_data_dict),
                 results, figures, point)
    /\ UNCHANGED issued

experiment_delete_SaveFails(experiment_id, point) ==
    /\ SelectRows(experiments, experiment_id) # <<>>
    /\ SaveFails("experiment_delete", <<experiment_id>>,
                 DeleteFrame(experiments, experiment_id), results, figures, point)
    /\ UNCHANGED issued

experiment_plot_upload_SaveFails(experiment_id, plot, plot_name, point) ==
    LET figs == WithFigureEntry(figures, experiment_id)
    IN  /\ plot_name \notin DOMAIN figs[experiment_id]
        /\ SaveFails("experiment_plot_upload", <<experiment_id, plot, plot_name>>,
                     experiments, results,
                     SetFigure(figs, experiment_id, plot_name, plot), point)
        /\ UNCHANGED issued

experiment_plot_update_SaveFails(experiment_id, plot, plot_name, point) ==
    /\ experiment_id \in DOMAIN figures
    /\ plot_name \in DOMAIN figures[experiment_id]
    /\ SaveFails("experiment_plot_update", <<experiment_id, plot, plot_name>>,
                 experiments, results,
                 SetFigure(figures, experiment_id, plot_name, plot), point)
    /\ UNCHANGED issued

analysis_result_create_SaveFails(result, generated, point) ==
    /\ CreateOutcome(experiments, result) = "ok"
    /\ SaveFails("analysis_result_create", <<result>>, experiments,
                 CreateFrame(results, experiments, result, generated), figures, point)
    /\ Uuid4Called(result, generated)

analysis_result_update_SaveFails(result_id, new_data_dict, point) ==
    /\ SelectRows(results, result_id) # <<>>
    /\ SaveFails("analysis_result_update", <<result_id, new_data_dict>>, experiments,
                 UpdateFrame(results, result_id, new_data_dict), figures, point)
    /\ UNCHANGED issued

analysis_result_delete_SaveFails(result_id, point) ==
    /\ SelectRows(results, result_id) # <<>>
    /\ SaveFails("analysis_result_delete", <<result_id>>, experiments,
                 DeleteFrame(results, result_id), figures, point)
    /\ UNCHANGED issued

NextFailing ==
    \/ Next
    \/ \E data \in ExperimentUploads, point \in SavePoints : \E g \in Uuid4For(data) :
            experiment_upload_SaveFails(data, g, point)
    \/ \E id \in AnyExperimentId, new \in ExperimentUpdates, point \in SavePoints :
            experiment_update_SaveFails(id, new, point)
    \/ \E id \in AnyExperimentId, point \in SavePoints :
            experiment_delete_SaveFails(id, point)
    \/ \E id \in ExperimentIds, plot \in PlotData, name \in PlotNames,
          point \in SavePoints : experiment_plot_upload_SaveFails(id, plot, name, point)
    \/ \E id \in ExperimentIds, plot \in PlotData, name \in PlotNames,
          point \in SavePoints : experiment_plot_update_SaveFails(id, plot, name, point)
    \/ \E result \in ResultCreates, point \in SavePoints : \E g \in Uuid4For(result) :
            analysis_result_create_SaveFails(result, g, point)
    \/ \E id \in AnyResultId, new \in ResultUpdates, point \in SavePoints :
            analysis_result_update_SaveFails(id, new, point)
    \/ \E id \in AnyResultId, point \in SavePoints :
            analysis_result_delete_SaveFails(id, point)

SpecFailing == Init /\ [][NextFailing]_vars

(***************************************************************************)
(* Vocabulary of the properties                                            *)
(***************************************************************************)
\* the error kinds of the specification, as the exceptions the client raises
AlreadyExists == {"IBMExperimentEntryExists"}
NotFound == {"IBMExperimentEntryNotFound", "RequestsApiError_404"}
Conflict == {"RequestsApiError_409"}
InvalidArgument == {"ValueError", "RequestsApiError"}

MutatingOps ==
    {"experiment_upload", "experiment_update", "experiment_delete",
     "analysis_result_create", "analysis_result_update", "analysis_result_delete",
     "experiment_plot_upload", "experiment_plot_update", "experiment_plot_delete"}

HasUuid(row, id) == Cell(row.data, "uuid") = {id}

UniqueUuids(df) ==
    \A i, j \in 1..Len(df) : i # j => Cell(df[i].data, "uuid") # Cell(df[j].data, "uuid")

\* the (experiment id, plot name) -> content map of a figures dictionary
BlobMap(figs) ==
    [k \in UNION {{e} \X DOMAIN figs[e] : e \in DOMAIN figs} |-> figs[k[1]][k[2]]]

\* the durable copy holds exactly the tables and the blobs in memory
DiskIsMemory ==
    /\ experiments_file = JsonFile(ToJson(experiments, experiment_db_columns))
    /\ results_file = JsonFile(ToJson(results, results_db_columns))
    /\ figures_dir.exists
    /\ figures_dir.files = SaveFigures(EmptyDict, figures)

(***************************************************************************)
(* C1 - C10                                                                *)
(***************************************************************************)
\* C1: with persistence enabled, a restart (init_db on the same directory)
\* reproduces the experiment records, the analysis-result records and the
\* (experiment id, plot name) -> content map that were in memory before it.
C1_RoundTrip ==
    [][(local_save /\ last'.op = "init_db") =>
          /\ experiments' = experiments
          /\ results' = results
          /\ BlobMap(figures') = BlobMap(figures)]_vars

\* C2: with persistence enabled, whenever a mutating call has returned
\* successfully the durable copy holds exactly the records and blobs of the
\* in-memory state.
C2_FlushedOnReturn ==
    (local_save /\ last.op \in MutatingOps /\ last.outcome = "ok") => DiskIsMemory

\* C3: no two experiment records ever have the same identifier, and
\* experiment_upload of an identifier already present fails with AlreadyExists
\* and leaves the collection unchanged.
C3_UniqueExperimentIds ==
    /\ []UniqueUuids(experiments)
    /\ [][(/\ last'.op = "experiment_upload"
           /\ SelectRows(experiments, last'.args[1]["uuid"]) # <<>>)
          => (last'.outcome \in AlreadyExists /\ experiments' = experiments)]_vars

\* C4: analysis_result_create for an existing experiment with an identifier
\* that an analysis-result record already has fails with AlreadyExists, and no
\* two analysis-result records ever have the same identifier.
C4_UniqueResultIds ==
    /\ []UniqueUuids(results)
    /\ [][(/\ last'.op = "analysis_result_create"
           /\ "uuid" \in DOMAIN last'.args[1]
           /\ SelectRows(results, last'.args[1]["uuid"]) # <<>>
           /\ "experiment_uuid" \in DOMAIN last'.args[1]
           /\ SelectRows(experiments, last'.args[1]["experiment_uuid"]) # <<>>)
          => last'.outcome \in AlreadyExists]_vars

\* the record update(id, ...) wrote to still has identifier id and is still
\* found by id
KeepsIdentifier(df, df2, id) ==
    LET label == SelectRows(df, id)[1].index
    IN  /\ \A i \in 1..Len(df2) : df2[i].index = label => HasUuid(df2[i], id)
        /\ SelectRows(df2, id) # <<>>

\* C5: for every payload, experiment_update(id, payload) and
\* analysis_result_update(id, payload) on a stored id leave the identifier of
\* the updated record equal to id, and the record is still retrievable by id.
C5_IdentifierImmutable ==
    [][/\ (last'.op = "experiment_update" /\ SelectRows(experiments, last'.args[1]) # <<>>)
            => KeepsIdentifier(experiments, experiments', last'.args[1])
       /\ (last'.op = "analysis_result_update" /\ SelectRows(results, last'.args[1]) # <<>>)
            => KeepsIdentifier(results, results', last'.args[1])]_vars

\* df2 is df with the payload merged into one record of identifier id
Merged(df, df2, id, payload) ==
    \E i \in 1..Len(df) :
        /\ HasUuid(df[i], id)
        /\ Len(df2) = Len(df)
        /\ \A j \in 1..Len(df) : j # i => df2[j] = df[j]
        /\ \A c \in DOMAIN payload : Cell(df2[i].data, c) = {payload[c]}
        /\ \A c \in (DOMAIN df[i].data \cup DOMAIN df2[i].data) \ DOMAIN payload :
                Cell(df2[i].data, c) = Cell(df[i].data, c)

UpdateIsMerge(op, df, df2) ==
    last'.op = op =>
        /\ last'.outcome = "ok" => Merged(df, df2, last'.args[1], last'.args[2])
        /\ SelectRows(df, last'.args[1]) = <<>> =>
                (last'.outcome \in NotFound /\ df2 = df)

\* C6: a successful experiment_update / analysis_result_update sets every field
\* of the payload to the payload's value in one record of that id, keeps every
\* other field of that record and every other record; on an absent id it fails
\* with NotFound.
C6_UpdateIsPartialMerge ==
    [][/\ UpdateIsMerge("experiment_update", experiments, experiments')
       /\ UpdateIsMerge("analysis_result_update", results, results')]_vars

\* an update of two fields has left a third field of the record, and a second
\* record, in place
C6_Witness ==
    /\ last.op = "experiment_update"
    /\ last.outcome = "ok"
    /\ DOMAIN last.args[2] = {"type", "notes"}
    /\ Len(experiments) = 2
    /\ \E i \in 1..2 :
          /\ HasUuid(experiments[i], last.args[1])
          /\ Cell(experiments[i].data, "type") = {<<"T", "2">>}
          /\ Cell(experiments[i].data, "device_name") = {"dev1"}

DeleteThenGet(del, get, df, df2) ==
    /\ last'.op = del =>
          IF SelectRows(df, last'.args[1]) # <<>>
          THEN last'.outcome = "ok" /\ SelectRows(df2, last'.args[1]) = <<>>
          ELSE last'.outcome \in NotFound
    /\ (/\ last.op = del
        /\ last.outcome = "ok"
        /\ last'.op = get
        /\ last'.args = last.args) => last'.outcome \in NotFound

\* C7: in both collections delete of a present id succeeds and leaves no record
\* of that id, a get of the same id right after it fails with NotFound, and
\* delete of an absent id fails with NotFound.
C7_DeleteThenGetNotFound ==
    [][/\ DeleteThenGet("experiment_delete", "experiment_get", experiments, experiments')
       /\ DeleteThenGet("analysis_result_delete", "analysis_result_get",
                        results, results')]_vars

\* an experiment has just been deleted, with a call left for the get
C7_Witness ==
    /\ last.op = "experiment_delete"
    /\ last.outcome = "ok"
    /\ SelectRows(experiments, last.args[1]) = <<>>
    /\ nops < MaxOps

\* C8: analysis_result_create without experiment_uuid fails with
\* InvalidArgument, with one that names no experiment it fails with NotFound,
\* and neither adds a record.
C8_CreateRequiresExperiment ==
    [][last'.op = "analysis_result_create" =>
          LET result == last'.args[1]
          IN  /\ "experiment_uuid" \notin DOMAIN result =>
                    (last'.outcome \in InvalidArgument /\ results' = results)
              /\ (/\ "experiment_uuid" \in DOMAIN result
                  /\ SelectRows(experiments, result["experiment_uuid"]) = <<>>) =>
                    (last'.outcome \in NotFound /\ results' = results)]_vars

\* a create was refused for naming an experiment that is not among those stored
C8_Witness ==
    /\ last.op = "analysis_result_create"
    /\ last.outcome \in NotFound
    /\ "experiment_uuid" \in DOMAIN last.args[1]
    /\ experiments # <<>>

\* C9: a successful analysis_result_create stores the device name of the
\* referenced experiment, whatever the payload carried, and experiment_update
\* and experiment_delete leave the device names of the results as they are.
C9_DeviceNameSnapshot ==
    [][/\ (last'.op = "analysis_result_create" /\ last'.outcome = "ok") =>
            /\ Len(results') = Len(results) + 1
            /\ Cell(results'[Len(results')].data, "device_name") =
               Cell(SelectRows(experiments, last'.args[1]["experiment_uuid"])[1].data,
                    "device_name")
       /\ last'.op \in {"experiment_update", "experiment_delete"} =>
            /\ Len(results') = Len(results)
            /\ \A i \in 1..Len(results) :
                  Cell(results'[i].data, "device_name") =
                  Cell(results[i].data, "device_name")]_vars

\* after an experiment_update a result holds a device name that its experiment
\* no longer has
C9_Witness ==
    /\ last.op = "experiment_update"
    /\ \E i \in 1..Len(results), j \in 1..Len(experiments) :
          /\ Cell(results[i].data, "experiment_uuid") = Cell(experiments[j].data, "uuid")
          /\ Cell(results[i].data, "device_name") = {"dev1"}
          /\ Cell(experiments[j].data, "device_name") = {"dev2"}

\* C10: experiment_delete(id) removes the records of that id only and leaves
\* the analysis results unchanged; the results of that experiment are still
\* found by their own ids.
C10_NoCascade ==
    [][last'.op = "experiment_delete" =>
          /\ results' = results
          /\ last'.outcome = "ok" =>
                experiments' = SelectSeq(experiments,
                                         LAMBDA r : ~HasUuid(r, last'.args[1]))
          /\ \A i \in 1..Len(results) :
                Cell(results[i].data, "experiment_uuid") = {last'.args[1]} =>
                    \E u \in Cell(results[i].data, "uuid") : SelectRows(results', u) # <<>>]_vars

\* an experiment was deleted while a result that names it is stored
C10_Witness ==
    /\ last.op = "experiment_delete"
    /\ last.outcome = "ok"
    /\ \E i \in 1..Len(results) :
          Cell(results[i].data, "experiment_uuid") = {last.args[1]}

(***************************************************************************)
(* Properties of the list operations, over SpecList: last holds the call   *)
(* and what it returned, the tables are those it read                      *)
(***************************************************************************)
ListOps == {"experiments", "analysis_results"}

Listed == last.op \in ListOps /\ last.outcome = "ok"

TimestampOf(op) == IF op = "experiments" THEN "start_time" ELSE "created_at"

NoSortBy ==
    IF last.op = "experiments" THEN "sort_by" \notin DOMAIN last.args.filters
    ELSE last.args.sort_by = Null

\* the operation of the last call, called with the arguments a on the tables
ListFrame(a) ==
    IF last.op = "experiments" THEN ExperimentsFrame(experiments, a)
    ELSE AnalysisResultsFrame(results, a)

Relisted(a) == Records(ListFrame(a).df)

Unlimited(a) == [a EXCEPT !.limit = NoLimit]

\* C11: a list call without sort_by returns a sequence that is non-increasing
\* in start_time (experiments) or created_at (analysis results), with equal
\* timestamps in ascending uuid order, and the same call on the same tables
\* returns the same sequence again.
C11_DefaultOrder ==
    (Listed /\ NoSortBy) =>
        LET ts == TimestampOf(last.op)
            ret == last.ret
        IN  /\ \A i, j \in 1..Len(ret) : i < j =>
                  /\ ret[i][ts] >= ret[j][ts]
                  /\ ret[i][ts] = ret[j][ts] => ~StrLess(ret[j]["uuid"], ret[i]["uuid"])
            /\ Relisted(last.args) = ret

\* two experiments that started together were returned in uuid order, against
\* the order they are stored in
C11_Witness ==
    /\ last.op = "experiments"
    /\ last.outcome = "ok"
    /\ NoSortBy
    /\ Len(last.ret) = 2
    /\ last.ret[1]["start_time"] = last.ret[2]["start_time"]
    /\ StrLess(last.ret[1]["uuid"], last.ret[2]["uuid"])
    /\ Records(experiments) = <<last.ret[2], last.ret[1]>>

\* C12: a list call with limit N returns at most N entries, and they are the
\* first entries of what the same call returns without a limit.
C12_LimitIsPrefix ==
    (Listed /\ last.args.limit.given /\ last.args.limit.value # Null) =>
        LET full == Relisted(Unlimited(last.args))
        IN  /\ Len(last.ret) <= Get(last.args.limit.value)
            /\ Len(last.ret) <= Len(full)
            /\ last.ret = SubSeq(full, 1, Len(last.ret))

\* a limit of 1 cut a sequence of two
C12_Witness ==
    /\ Listed
    /\ last.args.limit = [given |-> TRUE, value |-> {1}]
    /\ Len(last.ret) = 1
    /\ Len(Relisted(Unlimited(last.args))) = 2

\* C13 as stated: limit zero returns nothing, and a call that leaves limit out
\* returns every record that passes the filters.
C13_OmittedLimitUnlimited ==
    Listed =>
        /\ last.args.limit.value = {0} => last.ret = <<>>
        /\ ~last.args.limit.given => last.ret = Relisted(Unlimited(last.args))

\* C13, amended: limit zero returns nothing, a limit of None cuts nothing (the
\* call returns what a limit of the table's size returns), and an experiments
\* call that leaves limit out returns the first 10 entries of the sequence.
C13_DefaultLimitTen ==
    Listed =>
        LET full == Relisted(Unlimited(last.args))
            rows == IF last.op = "experiments" THEN Len(experiments) ELSE Len(results)
        IN  /\ last.args.limit.value = {0} => last.ret = <<>>
            /\ last.args.limit = NoLimit =>
                  last.ret = Relisted([last.args EXCEPT
                                          !.limit = [given |-> TRUE, value |-> {rows}]])
            /\ ~last.args.limit.given =>
                  last.ret = SubSeq(full, 1, IF Len(full) < DefaultLimit
                                             THEN Len(full) ELSE DefaultLimit)

\* experiments() without a limit returned 10 of the 11 experiments
C13_Witness ==
    /\ last.op = "experiments"
    /\ last.outcome = "ok"
    /\ ~last.args.limit.given
    /\ Len(last.ret) = DefaultLimit
    /\ Len(Relisted(Unlimited(last.args))) > DefaultLimit

\* the tags of a returned record and of a filter, as sets
TagSet(tags) == {tags[i] : i \in 1..Len(tags)}

\* the records of the sequence whose tags pass the filter T
Tagged(records, T, every) ==
    SelectSeq(records, LAMBDA r :
        IF every THEN TagSet(T) \subseteq TagSet(r["tags"])
        ELSE TagSet(T) \cap TagSet(r["tags"]) # {})

C15_ResultsTags ==
    (/\ last.op = "analysis_results"
     /\ last.args.tags # Null
     /\ Len(Split(Get(last.args.tags), ":")) = 2
     /\ Split(Get(last.args.tags), ":")[1] \in {<<"a", "n", "y">>, <<"A", "N", "D">>}) =>
        LET a == last.args
            parts == Split(Get(a.tags), ":")
            others == AnalysisResultsFrame(results, [Unlimited(a) EXCEPT !.tags = Null])
        IN  /\ last.outcome = others.outcome
            /\ last.outcome = "ok" =>
                   Relisted(Unlimited(a)) =
                       Tagged(Records(others.df), Split(parts[2], ","),
                              parts[1] = <<"A", "N", "D">>)

TypeArgument(a) == IF last.op = "experiments" THEN a.experiment_type ELSE a.result_type

WithoutType(a) ==
    IF last.op = "experiments" THEN [a EXCEPT !.experiment_type = Null]
    ELSE [a EXCEPT !.result_type = Null]

\* C16: a list call with the type filter "like:" + s returns exactly the
\* records, among those the other filters pass, whose type contains all of s,
\* and with a filter without the prefix exactly those whose type is the filter.
C16_LikeWholePattern ==
    (Listed /\ TypeArgument(last.args) # Null) =>
        LET type == Get(TypeArgument(last.args))
            others == Relisted(WithoutType(Unlimited(last.args)))
        IN  Relisted(Unlimited(last.args)) =
                SelectSeq(others, LAMBDA r :
                    IF Slice(type, 5) = LikePrefix
                    THEN Contains(r["type"], LikePattern_Rest(type))
                    ELSE r["type"] = type)

\* C17: a list call with device_components raises ValueError.
C17_DeviceComponentsRejected ==
    (last.op \in ListOps /\ last.args.device_components # Null) =>
        last.outcome \in InvalidArgument

(***************************************************************************)
(* Properties of a failing save, over SpecFailing                          *)
(***************************************************************************)
\* C18: a mutating call whose save fails is reported as failed and leaves the
\* tables and the figures in memory as they were before the call.
C18_FailedFlushRollsBack ==
    [][(last'.op \in MutatingOps /\ last'.outcome = "OSError") =>
          mem' = mem]_vars

(***************************************************************************)
(* Properties of the plots, over Spec                                      *)
(***************************************************************************)
PlotReads == {"experiment_plot_get", "experiment_plot_delete"}

\* the plot name among the arguments of a plot call
PlotNameOf(call) == IF call.op \in PlotReads THEN call.args[2] ELSE call.args[3]

HasPlot(figs, experiment_id, plot_name) ==
    experiment_id \in DOMAIN figs /\ plot_name \in DOMAIN figs[experiment_id]

\* C19: experiment_plot_get, experiment_plot_update and experiment_plot_delete
\* of a key (experiment id, plot name) without a stored plot fail with NotFound,
\* also when the experiment id has no plot at all, and change no stored plot.
C19_AbsentPlotNotFound ==
    [][(/\ last'.op \in PlotReads \cup {"experiment_plot_update"}
        /\ ~HasPlot(figures, last'.args[1], PlotNameOf(last'))) =>
          (last'.outcome \in NotFound /\ BlobMap(figures') = BlobMap(figures))]_vars

\* C20: experiment_plot_upload of a key that has a plot fails with Conflict and
\* changes no stored plot; of a key without one it succeeds, whether or not the
\* experiment exists, and stores the content under that key alone; a get of
\* the key right after a successful upload returns the uploaded content.
C20_PlotUpload ==
    [][/\ last'.op = "experiment_plot_upload" =>
            LET experiment_id == last'.args[1]
                plot == last'.args[2]
                plot_name == last'.args[3]
            IN  IF HasPlot(figures, experiment_id, plot_name)
                THEN /\ last'.outcome \in Conflict
                     /\ BlobMap(figures') = BlobMap(figures)
                ELSE /\ last'.outcome = "ok"
                     /\ BlobMap(figures') =
                            DictSet(BlobMap(figures), <<experiment_id, plot_name>>, plot)
       /\ (/\ last.op = "experiment_plot_upload"
           /\ last.outcome = "ok"
           /\ last'.op = "experiment_plot_get"
           /\ last'.args = <<last.args[1], last.args[3]>>) =>
              (last'.outcome = "ok" /\ last'.ret = {last.args[2]})]_vars

\* a second upload under the name of a stored plot was refused, for an
\* experiment id that no experiment has, and the first content is still there
C20_Witness ==
    /\ last.op = "experiment_plot_upload"
    /\ last.outcome \in Conflict
    /\ SelectRows(experiments, last.args[1]) = <<>>
    /\ HasPlot(figures, last.args[1], last.args[3])
    /\ figures[last.args[1]][last.args[3]] # last.args[2]
    /\ nops < MaxOps

(***************************************************************************)
(* Sort specifications and the backend filter, over SpecList               *)
(***************************************************************************)
\* the sort_by argument of the last call: Null or {[list, items]}
SortByOf(a) ==
    IF last.op = "experiments"
    THEN IF "sort_by" \in DOMAIN a.filters THEN {a.filters["sort_by"]} ELSE Null
    ELSE a.sort_by

WithoutSortBy(a) ==
    IF last.op = "experiments"
    THEN [a EXCEPT !.filters = [k \in DOMAIN a.filters \ {"sort_by"} |-> a.filters[k]]]
    ELSE [a EXCEPT !.sort_by = Null]

SortFieldOf(op) == IF op = "experiments" THEN StartDatetime ELSE CreationDatetime

\* C21: a list call whose other arguments are accepted succeeds with a sort_by
\* of one token "field:asc" or "field:desc" on the timestamp field of the
\* collection, and raises ValueError with a list of two tokens, another field,
\* another direction or no direction; with asc the returned sequence is
\* non-decreasing in the timestamp, with equal timestamps in ascending uuid
\* order.
C21_SortValidation ==
    (/\ last.op \in ListOps
     /\ SortByOf(last.args) # Null
     /\ ListFrame(WithoutSortBy(last.args)).outcome = "ok") =>
        LET items == Get(SortByOf(last.args)).items
            field == SortFieldOf(last.op)
            ts == TimestampOf(last.op)
            ret == last.ret
        IN  IF Len(items) = 1 /\ items[1] \in {field \o <<":">> \o Asc,
                                                field \o <<":">> \o Desc}
            THEN /\ last.outcome = "ok"
                 /\ items[1] = field \o <<":">> \o Asc =>
                        \A i, j \in 1..Len(ret) : i < j =>
                            /\ ret[i][ts] <= ret[j][ts]
                            /\ ret[i][ts] = ret[j][ts] =>
                                   ~StrLess(ret[j]["uuid"], ret[i]["uuid"])
            ELSE last.outcome \in InvalidArgument

\* asc was accepted and returned the later of two experiments last, against
\* the order they are stored in
C21_Witness ==
    /\ last.op = "experiments"
    /\ last.outcome = "ok"
    /\ SortByOf(last.args) = {OneString(StartDatetime \o <<":">> \o Asc)}
    /\ Len(last.ret) = 2
    /\ last.ret[1]["start_time"] < last.ret[2]["start_time"]
    /\ Records(experiments) = <<last.ret[2], last.ret[1]>>

\* C22: analysis_results with backend_name returns exactly the results, among
\* those the other filters pass, whose device_name is the given name, on
\* every results table.
C22_ResultsBackendFilter ==
    (/\ last.op = "analysis_results"
     /\ last.args.backend_name # Null
     /\ ListFrame([last.args EXCEPT !.backend_name = Null]).outcome = "ok") =>
        /\ last.outcome = "ok"
        /\ Relisted(Unlimited(last.args)) =
               SelectSeq(Relisted([Unlimited(last.args) EXCEPT !.backend_name = Null]),
                         LAMBDA r : Cell(r, "device_name") = last.args.backend_name)

(***************************************************************************)
(* Failed and read-only calls, over SpecClient                             *)
(***************************************************************************)
ReadOnlyOps ==
    {"experiment_get", "analysis_result_get", "experiment_plot_get",
     "experiments", "analysis_results"}

\* C23: a call that ends in AlreadyExists, NotFound, Conflict or
\* InvalidArgument, and every get and list call whatever its outcome, leaves
\* the experiments table, the results table and the stored plots as they were.
C23_ErrorsChangeNothing ==
    [][(\/ last'.outcome \in AlreadyExists \cup NotFound \cup Conflict \cup InvalidArgument
        \/ last'.op \in ReadOnlyOps) =>
          /\ experiments' = experiments
          /\ results' = results
          /\ BlobMap(figures') = BlobMap(figures)]_vars

\* a list call has returned two stored experiments in an order that is not
\* the one they are stored in
C23_Witness ==
    /\ last.op = "experiments"
    /\ last.outcome = "ok"
    /\ Len(last.ret) = 2
    /\ Records(experiments) = <<last.ret[2], last.ret[1]>>

====
